---- MODULE Spec2Model ----
(***************************************************************************)
(* The TTL index expiration engine of Tendis (IndexManager) together with  *)
(* the part of ServerEntry that drives it.                                 *)
(*                                                                         *)
(* One IndexManager, its dispatch thread (run), the workers of the scanner *)
(* pool and of the deleter pool, the public operations startup, stop and   *)
(* stopStore, and the surrounding server as far as the engine observes it: *)
(* the stores' modes, their TTL indexes, the migrate manager.              *)
(*                                                                         *)
(* A TTL index entry is written as its rank e in 1..MaxEntry in the index  *)
(* order; its encoded key is the one-byte string <<e>>, and the empty      *)
(* string <<>> is the cursor "start from the beginning".  The index of a   *)
(* store holds the entries a cursor bounded by the store's current time    *)
(* yields: the expired ones.  Entries that are not yet expired sort after  *)
(* all of them and end the scan the way the end of the index does.         *)
(*                                                                         *)
(* The uint32 in-flight counters are kept as their bit pattern read as a   *)
(* signed 32 bit integer: 0u - 1 = 0xFFFFFFFF is written -1.               *)
(***************************************************************************)
EXTENDS Integers, Sequences, FiniteSets, TLC

\* ---------------------------------------------------------------- sizes
\* kvStoreCount, the number of stores of the server
NumStores == 1
\* scanJobCntIndexMgr and delJobCntIndexMgr, the sizes of the two pools
ScanPoolSize == 2
DelPoolSize == 2
\* the entries of a store's TTL index are 1..MaxEntry
MaxEntry == 3
\* scanCntIndexMgr and delCntIndexMgr are drawn from 1..MaxBatch
MaxBatch == 2
\* at most MaxTasks scheduled and not yet started jobs per store and pool
MaxTasks == 1
\* the in-flight counters are followed down to -MaxUnder
MaxUnder == 1
\* a metered run is followed for MaxTicks iterations of run
MaxTicks == 3

Stores == 0 .. (NumStores - 1)
Entries == 1 .. MaxEntry
NoEntry == 0
\* The workers of a pool are alike, so a running job is named by its store and
\* by its rank among the jobs of that store that run at the same time: a pool
\* of n workers runs at most n jobs, of one store or of several.
ScanJobs == Stores \X (1 .. ScanPoolSize)
DelJobs == Stores \X (1 .. DelPoolSize)
\* the threads that call ServerEntry::stop: the one in waitStopComplete and
\* another one
Callers == {"waiter", "other"}

VARIABLES
  \* IndexManager
  isRunning, scanPoints, expiredKeys, scanJobStatus, delJobStatus,
  disableStatus, scanJobCnt, delJobCnt, totalEnqueue, totalDequeue,
  scanBatch, delBatch,
  \* ServerEntry as the engine sees it
  clusterEnabled, migrateTask, storeMode, ttlIndex,
  \* the two pools: scheduled jobs, and each running job
  scanTasks, delTasks, scanPoolUp, delPoolUp,
  spc, cursor, senq,
  dpc, index, deletes, popped,
  \* the threads of startup, run and stop
  startupStatus, rpc, stopPc,
  \* the process has aborted on a failed INVARIANT
  crashed,
  \* bookkeeping of the claims
  everEnq, lastCall,
  \* a metered run counts the iterations of run and, for every store, the
  \* scanner jobs that pushed and the deleter jobs that popped
  metered, ticks, scanWork, delWork,
  \* ServerEntry: its flags, its startup, the calls of stop, the thread in
  \* waitStopComplete, the catalog and the stores
  srvRunning, srvStopped, srvShutdowned, srvPc, stopCall, waitPc,
  catalogUp, storeUp

engineVars == <<isRunning, scanPoints, expiredKeys, scanJobStatus, delJobStatus,
                disableStatus, scanJobCnt, delJobCnt, totalEnqueue, totalDequeue>>
cfgVars == <<scanBatch, delBatch, clusterEnabled>>
envVars == <<migrateTask, storeMode, ttlIndex>>
poolVars == <<scanTasks, delTasks, scanPoolUp, delPoolUp>>
scanVars == <<spc, cursor, senq>>
delVars == <<dpc, index, deletes, popped>>
threadVars == <<startupStatus, rpc, stopPc>>
histVars == <<everEnq, lastCall>>
meterVars == <<metered, ticks, scanWork, delWork>>
srvVars == <<srvRunning, srvStopped, srvShutdowned, srvPc, stopCall, waitPc,
             catalogUp, storeUp>>

vars == <<engineVars, cfgVars, envVars, poolVars, scanVars, delVars,
          threadVars, crashed, histVars, meterVars, srvVars>>

\* ---------------------------------------------------------------- helpers
Min(S) == CHOOSE x \in S : \A y \in S : x <= y

\* TTLIndex::encode and the empty std::string
Encode(e) == <<e>>
Empty == <<>>
\* the order of the encoded keys (std::string::compare), the empty string first
KeyLE(a, b) == \/ Len(a) = 0
               \/ Len(a) > 0 /\ Len(b) > 0 /\ a[1] <= b[1]

\* The cursor of a transaction reads the index as it was when the transaction
\* began.  Its state is the set of entries it has still to yield: it stands at
\* the least of them, and it is exhausted when the set is empty.
CursorKey(c) == IF c = {} THEN NoEntry ELSE Min(c)
\* Cursor::seek: to the first entry whose key is not below the target
CursorSeek(c, target) == {e \in c : KeyLE(target, Encode(e))}
\* Cursor::next: past the entry the cursor stands at
CursorNext(c) == c \ {CursorKey(c)}

\* KVStore::isOpen
IsOpen(mode) == mode # "STORE_NONE"

\* uint32 arithmetic on the in-flight counters
Incr(c) == c + 1
Decr(c) == c - 1

\* the jobs of a pool that hold a worker, and the slot a new job of s takes
Running(pc) == {j \in DOMAIN pc : pc[j] # "idle"}
FreeSlot(pc, s) == Min({k \in 1 .. Cardinality(DOMAIN pc) :
                          <<s, k>> \in DOMAIN pc /\ pc[<<s, k>>] = "idle"})
HasFreeSlot(pc, s) == \E j \in DOMAIN pc : j[1] = s /\ pc[j] = "idle"

\* ---------------------------------------------------------------- Init
\* IndexManager::IndexManager; the stores' modes come from the catalog
InitEngine ==
  /\ isRunning = FALSE
  /\ scanPoints = [s \in Stores |-> Empty]
  /\ expiredKeys = [s \in Stores |-> <<>>]
  /\ scanJobStatus = [s \in Stores |-> FALSE]
  /\ delJobStatus = [s \in Stores |-> FALSE]
  /\ disableStatus = [s \in Stores |-> FALSE]
  /\ scanJobCnt = [s \in Stores |-> 0]
  /\ delJobCnt = [s \in Stores |-> 0]
  /\ totalEnqueue = 0
  /\ totalDequeue = 0
  /\ scanBatch \in 1 .. MaxBatch
  /\ delBatch \in 1 .. MaxBatch
  /\ clusterEnabled \in BOOLEAN
  /\ migrateTask = FALSE
  /\ storeMode \in [Stores -> {"READ_WRITE", "REPLICATE_ONLY"}]
  /\ ttlIndex \in [Stores -> SUBSET Entries]
  /\ scanTasks = [s \in Stores |-> 0]
  /\ delTasks = [s \in Stores |-> 0]
  /\ scanPoolUp = FALSE
  /\ delPoolUp = FALSE
  /\ spc = [j \in ScanJobs |-> "idle"]
  /\ cursor = [j \in ScanJobs |-> {}]
  /\ senq = [j \in ScanJobs |-> 0]
  /\ dpc = [j \in DelJobs |-> "idle"]
  /\ index = [j \in DelJobs |-> NoEntry]
  /\ deletes = [j \in DelJobs |-> 0]
  /\ popped = [j \in DelJobs |-> 0]
  /\ startupStatus = "none"
  /\ rpc = "off"
  /\ stopPc = "none"
  /\ crashed = FALSE
  /\ everEnq = [s \in Stores |-> {}]
  /\ lastCall = [s \in Stores |-> NoEntry]
  /\ ticks = 0
  /\ scanWork = [s \in Stores |-> 0]
  /\ delWork = [s \in Stores |-> 0]
  /\ srvRunning = FALSE
  /\ srvStopped = TRUE
  /\ srvShutdowned = FALSE
  /\ srvPc = "init"
  /\ stopCall = [c \in Callers |-> "idle"]
  /\ waitPc = "idle"
  /\ catalogUp = TRUE
  /\ storeUp = [s \in Stores |-> TRUE]

\* a run that is not metered
Init ==
  /\ InitEngine
  /\ metered = FALSE

\* ---------------------------------------------------------------- scanner
\* a plain store in the place of the compare-exchange: it always takes the flag
CasBlind(flag) == TRUE

\* compare_exchange_strong(expected = false, true): does it take the flag
CasTakes(flag) == flag = FALSE

\* the mode test without the isOpen test
StoreIsSlave(mode) == mode = "REPLICATE_ONLY"

\* the store is a slave or not open: the scanner does nothing
StoreUnavailable(mode) == mode = "REPLICATE_ONLY" \/ ~IsOpen(mode)

\* the seek without the skip of the entry that was pushed last
ScanSkipNever(prefix, key) == FALSE

\* prefix.compare(key) == 0: the entry at the cursor is the one already pushed
ScanSkip(prefix, key) == prefix = key

\* a cursor left at the beginning of the index
ScanFromStart(c, prefix) == c

\* the cursor after the seek to the resume point and the skip
ScanPosition(c, prefix) ==
  IF ScanSkip(prefix, Encode(CursorKey(CursorSeek(c, prefix))))
    THEN CursorNext(CursorSeek(c, prefix))
    ELSE CursorSeek(c, prefix)

\* _expiredKeys[storeId].size() == _scanBatch
ScanBatchFull(queue, batch) == Len(queue) = batch

\* the scope guard of the scanner, and the worker is free again
ScanReturnGuarded(j) ==
  /\ scanJobCnt' = [scanJobCnt EXCEPT ![j[1]] = Decr(@)]
  /\ scanJobStatus' = [scanJobStatus EXCEPT ![j[1]] = FALSE]
  /\ spc' = [spc EXCEPT ![j] = "idle"]
  /\ cursor' = [cursor EXCEPT ![j] = {}]
  /\ senq' = [senq EXCEPT ![j] = 0]

\* scanExpiredKeysJob(s) begins on a free worker of the scanner pool: it tries
\* the flag and returns when it does not get it
ScanJobBegin(s) ==
  /\ ~crashed /\ scanPoolUp
  /\ Cardinality(Running(spc)) < ScanPoolSize
  /\ HasFreeSlot(spc, s)
  /\ IF CasTakes(scanJobStatus[s])
       THEN /\ scanJobStatus' = [scanJobStatus EXCEPT ![s] = TRUE]
            /\ spc' = [spc EXCEPT ![<<s, FreeSlot(spc, s)>>] = "disabled"]
       ELSE UNCHANGED <<scanJobStatus, spc>>
  /\ UNCHANGED <<isRunning, scanPoints, expiredKeys, delJobStatus, disableStatus,
                 scanJobCnt, delJobCnt, totalEnqueue, totalDequeue, cfgVars,
                 envVars, delTasks, scanPoolUp, delPoolUp, cursor, senq,
                 delVars, threadVars, crashed, histVars, meterVars, srvVars>>

\* a worker of the scanner pool takes a job that run scheduled for store s
ScanStart(s) ==
  /\ scanTasks[s] > 0
  /\ scanTasks' = [scanTasks EXCEPT ![s] = @ - 1]
  /\ ScanJobBegin(s)

\* scanExpiredKeysJob(s) is called, whoever scheduled it
ScanRun(s) ==
  /\ ScanJobBegin(s)
  /\ UNCHANGED scanTasks

\* the disabled check: a disabled store ends the job with the flag still set
ScanCheckDisabled(j) ==
  /\ ~crashed
  /\ spc[j] = "disabled"
  /\ spc' = [spc EXCEPT ![j] = IF disableStatus[j[1]] THEN "idle" ELSE "migrate"]
  /\ UNCHANGED <<engineVars, cfgVars, envVars, poolVars, cursor, senq,
                 delVars, threadVars, crashed, histVars, meterVars, srvVars>>

\* the guard is armed; a live migrate task ends the job, else the job counts
\* itself in
ScanCheckMigrate(j) ==
  /\ ~crashed
  /\ spc[j] = "migrate"
  /\ IF clusterEnabled /\ migrateTask
       THEN /\ scanJobCnt[j[1]] > -MaxUnder
            /\ ScanReturnGuarded(j)
       ELSE /\ scanJobCnt' = [scanJobCnt EXCEPT ![j[1]] = Incr(@)]
            /\ spc' = [spc EXCEPT ![j] = "open"]
            /\ UNCHANGED <<scanJobStatus, cursor, senq>>
  /\ UNCHANGED <<isRunning, scanPoints, expiredKeys, delJobStatus, disableStatus,
                 delJobCnt, totalEnqueue, totalDequeue, cfgVars, envVars,
                 poolVars, delVars, threadVars, crashed, histVars, meterVars, srvVars>>

\* getDb under the IS lock, the mode check, the transaction and its cursor,
\* the resume point read under the mutex, the seek and the skip
ScanOpen(j) ==
  LET s == j[1]
      prefix == scanPoints[s]
  IN
  /\ ~crashed
  /\ spc[j] = "open"
  /\ IF StoreUnavailable(storeMode[s])
       THEN ScanReturnGuarded(j)
       ELSE IF Len(prefix) > 0
         THEN IF CursorSeek(ttlIndex[s], prefix) = {}
                THEN ScanReturnGuarded(j)
                ELSE /\ cursor' = [cursor EXCEPT ![j] = ScanPosition(ttlIndex[s], prefix)]
                     /\ spc' = [spc EXCEPT ![j] = "loop"]
                     /\ UNCHANGED <<scanJobCnt, scanJobStatus, senq>>
         ELSE /\ cursor' = [cursor EXCEPT ![j] = ttlIndex[s]]
              /\ spc' = [spc EXCEPT ![j] = "loop"]
              /\ UNCHANGED <<scanJobCnt, scanJobStatus, senq>>
  /\ UNCHANGED <<isRunning, scanPoints, expiredKeys, delJobStatus, disableStatus,
                 delJobCnt, totalEnqueue, totalDequeue, cfgVars, envVars,
                 poolVars, delVars, threadVars, crashed, histVars, meterVars, srvVars>>

\* getDb or createTransaction fails: the job returns that status
ScanOpenFails(j) ==
  /\ ~crashed
  /\ spc[j] = "open"
  /\ ScanReturnGuarded(j)
  /\ UNCHANGED <<isRunning, scanPoints, expiredKeys, delJobStatus, disableStatus,
                 delJobCnt, totalEnqueue, totalDequeue, cfgVars, envVars,
                 poolVars, delVars, threadVars, crashed, histVars, meterVars, srvVars>>

\* one round of the loop: cursor->next(), and under the mutex the push
ScanLoop(j) ==
  LET s == j[1]
      e == CursorKey(cursor[j])
  IN
  /\ ~crashed
  /\ spc[j] = "loop"
  /\ IF e = NoEntry
       THEN /\ ScanReturnGuarded(j)
            /\ UNCHANGED <<scanPoints, expiredKeys, totalEnqueue, everEnq,
                           scanWork>>
       ELSE /\ scanPoints' = [scanPoints EXCEPT ![s] = Encode(e)]
            /\ expiredKeys' = [expiredKeys EXCEPT ![s] = Append(@, e)]
            /\ totalEnqueue' = totalEnqueue + 1
            /\ everEnq' = [everEnq EXCEPT ![s] = @ \cup {e}]
            /\ senq' = [senq EXCEPT ![j] = @ + 1]
            /\ scanWork' = [scanWork EXCEPT ![s] =
                              IF metered /\ senq[j] = 0 THEN @ + 1 ELSE @]
            /\ cursor' = [cursor EXCEPT ![j] = CursorNext(@)]
            /\ spc' = [spc EXCEPT ![j] =
                         IF ScanBatchFull(expiredKeys'[s], scanBatch)
                           THEN "exit" ELSE "loop"]
            /\ UNCHANGED <<scanJobCnt, scanJobStatus>>
  /\ UNCHANGED <<isRunning, delJobStatus, disableStatus, delJobCnt,
                 totalDequeue, cfgVars, envVars, poolVars, delVars, threadVars,
                 crashed, lastCall, metered, ticks, delWork, srvVars>>

\* the return after the batch break
ScanExit(j) ==
  /\ ~crashed
  /\ spc[j] = "exit"
  /\ ScanReturnGuarded(j)
  /\ UNCHANGED <<isRunning, scanPoints, expiredKeys, delJobStatus, disableStatus,
                 delJobCnt, totalEnqueue, totalDequeue, cfgVars, envVars,
                 poolVars, delVars, threadVars, crashed, histVars, meterVars, srvVars>>

\* ---------------------------------------------------------------- stopStore
\* IndexManager::stopStore, under the mutex
StopStoreEffect(s) ==
  /\ expiredKeys' = [expiredKeys EXCEPT ![s] = <<>>]
  /\ scanPoints' = [scanPoints EXCEPT ![s] = Empty]
  /\ scanJobCnt' = [scanJobCnt EXCEPT ![s] = 0]
  /\ delJobCnt' = [delJobCnt EXCEPT ![s] = 0]
  /\ disableStatus' = [disableStatus EXCEPT ![s] = TRUE]
  /\ lastCall' = [lastCall EXCEPT ![s] = NoEntry]
  /\ UNCHANGED <<isRunning, scanJobStatus, delJobStatus, totalEnqueue,
                 totalDequeue>>

\* IndexManager::stopStore called by the surrounding server
StopStore(s) ==
  /\ ~crashed
  /\ StopStoreEffect(s)
  /\ UNCHANGED <<cfgVars, envVars, poolVars, scanVars, delVars, threadVars,
                 crashed, everEnq, meterVars, srvVars>>

\* ---------------------------------------------------------------- deleter
\* Command::expireKeyIfNeeded: the expired key and its TTL index entry go,
\* when the store takes writes
ExpireKeyIfNeeded(ix, mode, e) == IF mode = "READ_WRITE" THEN ix \ {e} ELSE ix

\* a pop that is not counted
DequeueUncounted(n) == n

\* _totalDequeue++
DequeueCounted(n) == n + 1

\* a job that never tests its batch
DelBatchNever(d, batch) == FALSE

\* the batch test one pop late
DelBatchLate(d, batch) == d > batch

\* deletes == _delBatch
DelBatchDone(d, batch) == d = batch

\* tryDelExpiredKeysJob(s) begins on a free worker of the deleter pool: it
\* tries the flag and returns 0 when it does not get it
DelJobBegin(s) ==
  /\ ~crashed /\ delPoolUp
  /\ Cardinality(Running(dpc)) < DelPoolSize
  /\ HasFreeSlot(dpc, s)
  /\ IF CasTakes(delJobStatus[s])
       THEN /\ delJobStatus' = [delJobStatus EXCEPT ![s] = TRUE]
            /\ dpc' = [dpc EXCEPT ![<<s, FreeSlot(dpc, s)>>] = "disabled"]
       ELSE UNCHANGED <<delJobStatus, dpc>>
  /\ UNCHANGED <<isRunning, scanPoints, expiredKeys, scanJobStatus, disableStatus,
                 scanJobCnt, delJobCnt, totalEnqueue, totalDequeue, cfgVars,
                 envVars, scanTasks, scanPoolUp, delPoolUp, index, deletes,
                 popped, scanVars, threadVars, crashed, histVars, meterVars, srvVars>>

\* a worker of the deleter pool takes a job that run scheduled for store s
DelStart(s) ==
  /\ delTasks[s] > 0
  /\ delTasks' = [delTasks EXCEPT ![s] = @ - 1]
  /\ DelJobBegin(s)

\* tryDelExpiredKeysJob(s) is called, whoever scheduled it
DelRun(s) ==
  /\ DelJobBegin(s)
  /\ UNCHANGED delTasks

\* the disabled check: a disabled store ends the job, returning 0, with the
\* flag still set; else the job counts itself in
DelCheckDisabled(j) ==
  /\ ~crashed
  /\ dpc[j] = "disabled"
  /\ IF disableStatus[j[1]]
       THEN /\ dpc' = [dpc EXCEPT ![j] = "idle"]
            /\ UNCHANGED delJobCnt
       ELSE /\ delJobCnt' = [delJobCnt EXCEPT ![j[1]] = Incr(@)]
            /\ dpc' = [dpc EXCEPT ![j] = "peek"]
  /\ UNCHANGED <<isRunning, scanPoints, expiredKeys, scanJobStatus, delJobStatus,
                 disableStatus, scanJobCnt, totalEnqueue, totalDequeue, cfgVars,
                 envVars, poolVars, scanVars, index, deletes, popped,
                 threadVars, crashed, histVars, meterVars, srvVars>>

\* under the mutex: leave the loop on an empty queue, else copy the front
DelPeek(j) ==
  /\ ~crashed
  /\ dpc[j] = "peek"
  /\ IF expiredKeys[j[1]] = <<>>
       THEN /\ dpc' = [dpc EXCEPT ![j] = "exit"]
            /\ UNCHANGED index
       ELSE /\ index' = [index EXCEPT ![j] = Head(expiredKeys[j[1]])]
            /\ dpc' = [dpc EXCEPT ![j] = "call"]
  /\ UNCHANGED <<engineVars, cfgVars, envVars, poolVars, scanVars, deletes,
                 popped, threadVars, crashed, histVars, meterVars, srvVars>>

\* the call of Command::expireKeyIfNeeded for the copied entry
DelCall(j) ==
  /\ ~crashed
  /\ dpc[j] = "call"
  /\ ttlIndex' = [ttlIndex EXCEPT ![j[1]] =
                    ExpireKeyIfNeeded(@, storeMode[j[1]], index[j])]
  /\ dpc' = [dpc EXCEPT ![j] = "pop"]
  /\ UNCHANGED <<engineVars, cfgVars, migrateTask, storeMode, poolVars,
                 scanVars, index, deletes, popped, threadVars, crashed,
                 everEnq, meterVars, srvVars>>
  /\ lastCall' = [lastCall EXCEPT ![j[1]] = index[j]]

\* under the mutex: INVARIANT(!empty), pop_front, the counts, the batch check
DelPop(j) ==
  /\ ~crashed
  /\ dpc[j] = "pop"
  /\ IF expiredKeys[j[1]] = <<>>
       THEN /\ crashed' = TRUE
            /\ UNCHANGED <<expiredKeys, totalDequeue, deletes, popped, dpc, index,
                           delWork>>
       ELSE /\ expiredKeys' = [expiredKeys EXCEPT ![j[1]] = Tail(@)]
            /\ totalDequeue' = DequeueCounted(totalDequeue)
            /\ deletes' = [deletes EXCEPT ![j] = @ + 1]
            /\ popped' = [popped EXCEPT ![j] = @ + 1]
            /\ delWork' = [delWork EXCEPT ![j[1]] =
                             IF metered /\ popped[j] = 0 THEN @ + 1 ELSE @]
            /\ index' = [index EXCEPT ![j] = NoEntry]
            /\ dpc' = [dpc EXCEPT ![j] =
                         IF DelBatchDone(deletes'[j], delBatch)
                           THEN "exit" ELSE "peek"]
            /\ UNCHANGED crashed
  /\ UNCHANGED <<isRunning, scanPoints, scanJobStatus, delJobStatus,
                 disableStatus, scanJobCnt, delJobCnt, totalEnqueue, cfgVars,
                 envVars, poolVars, scanVars, threadVars, histVars, metered,
                 ticks, scanWork, srvVars>>

\* the end of the job: the counter, the flag, return deletes
DelExit(j) ==
  /\ ~crashed
  /\ dpc[j] = "exit"
  /\ delJobCnt' = [delJobCnt EXCEPT ![j[1]] = Decr(@)]
  /\ delJobStatus' = [delJobStatus EXCEPT ![j[1]] = FALSE]
  /\ dpc' = [dpc EXCEPT ![j] = "idle"]
  /\ deletes' = [deletes EXCEPT ![j] = 0]
  /\ popped' = [popped EXCEPT ![j] = 0]
  /\ UNCHANGED <<isRunning, scanPoints, expiredKeys, scanJobStatus,
                 disableStatus, scanJobCnt, totalEnqueue, totalDequeue, cfgVars,
                 envVars, poolVars, scanVars, index, threadVars, crashed,
                 histVars, meterVars, srvVars>>

\* ---------------------------------------------------------------- the server
\* a scanner holds the store's IS lock from getDb to its return
HoldsIS(s) == \E j \in ScanJobs : j[1] = s /\ spc[j] \in {"loop", "exit"}

\* a key with an elapsed TTL appears in the index of a store
InsertTTL(s, e) ==
  /\ ~crashed
  /\ IsOpen(storeMode[s])
  /\ e \notin ttlIndex[s]
  /\ ttlIndex' = [ttlIndex EXCEPT ![s] = @ \cup {e}]
  /\ UNCHANGED <<engineVars, cfgVars, migrateTask, storeMode, poolVars,
                 scanVars, delVars, threadVars, crashed, histVars, meterVars, srvVars>>

\* ServerEntry::setStoreMode, called with the X lock of the store held
SetStoreMode(s, mode) ==
  /\ ~crashed
  /\ ~HoldsIS(s)
  /\ IsOpen(storeMode[s])
  /\ storeMode[s] # mode
  /\ storeMode' = [storeMode EXCEPT ![s] = mode]
  /\ UNCHANGED <<engineVars, cfgVars, migrateTask, ttlIndex, poolVars,
                 scanVars, delVars, threadVars, crashed, histVars, meterVars, srvVars>>

\* ServerEntry::destroyStore under the X lock of the store: the store is
\* destroyed, then the replication manager and the engine are told, unless the
\* replication manager fails
DestroyStore(s, replOk) ==
  /\ ~crashed
  /\ ~HoldsIS(s)
  /\ IsOpen(storeMode[s])
  /\ storeMode' = [storeMode EXCEPT ![s] = "STORE_NONE"]
  /\ ttlIndex' = [ttlIndex EXCEPT ![s] = {}]
  /\ IF replOk THEN StopStoreEffect(s) ELSE UNCHANGED <<engineVars, lastCall>>
  /\ UNCHANGED <<cfgVars, migrateTask, poolVars, scanVars, delVars, threadVars,
                 crashed, everEnq, meterVars, srvVars>>

\* MigrateManager::existMigrateTask changes its answer
SetMigrateTask(b) ==
  /\ ~crashed
  /\ clusterEnabled
  /\ migrateTask # b
  /\ migrateTask' = b
  /\ UNCHANGED <<engineVars, cfgVars, storeMode, ttlIndex, poolVars, scanVars,
                 delVars, threadVars, crashed, histVars, meterVars, srvVars>>

\* ---------------------------------------------------------------- threads
\* a startup that does not look at what the deleter pool's startup returned
StartupIgnoresDel(scanOk, delOk) == IF scanOk THEN "ok" ELSE "scan_pool_failed"

\* what startup returns: the first pool that failed to start, or ok
StartupStatus(scanOk, delOk) ==
  IF ~scanOk THEN "scan_pool_failed"
  ELSE IF ~delOk THEN "del_pool_failed"
  ELSE "ok"

\* _runner.join() without the wait
JoinSkipped == TRUE

\* _runner.join() returns when run has left its loop
RunnerJoined == rpc = "exited"

\* IndexManager::startup
Startup(scanOk, delOk) ==
  /\ ~crashed
  /\ startupStatus = "none"
  /\ startupStatus' = StartupStatus(scanOk, delOk)
  /\ scanPoolUp' = scanOk
  /\ delPoolUp' = (scanOk /\ delOk)
  /\ IF StartupStatus(scanOk, delOk) = "ok"
       THEN /\ isRunning' = TRUE
            /\ rpc' = "check"
       ELSE UNCHANGED <<isRunning, rpc>>
  /\ UNCHANGED <<scanPoints, expiredKeys, scanJobStatus, delJobStatus,
                 disableStatus, scanJobCnt, delJobCnt, totalEnqueue, totalDequeue,
                 cfgVars, envVars, scanTasks, delTasks, scanVars, delVars,
                 stopPc, crashed, histVars, meterVars, srvVars>>

\* run: the loop test and scheScanExpired, one scanner job for every store
RunSchedScan ==
  /\ ~crashed
  /\ rpc = "check"
  /\ IF isRunning
       THEN /\ \A s \in Stores : scanTasks[s] < MaxTasks
            /\ metered => ticks < MaxTicks
            /\ scanTasks' = [s \in Stores |-> scanTasks[s] + 1]
            /\ rpc' = "snap"
       ELSE /\ rpc' = "exited"
            /\ UNCHANGED scanTasks
  /\ UNCHANGED <<engineVars, cfgVars, envVars, delTasks, scanPoolUp, delPoolUp,
                 scanVars, delVars, startupStatus, stopPc, crashed, histVars, meterVars, srvVars>>

\* a deleter job for every store, whatever its queue holds
AllStores == Stores

\* schedDelExpired: under the mutex the stores with a non-empty queue are
\* collected; with the mutex released a deleter job is scheduled for each of
\* them; then the sleep
StoredWithExpires == {s \in Stores : Len(expiredKeys[s]) > 0}

RunSchedDel ==
  /\ ~crashed
  /\ rpc = "snap"
  /\ \A s \in StoredWithExpires : delTasks[s] < MaxTasks
  /\ delTasks' = [s \in Stores |->
                    IF s \in StoredWithExpires THEN delTasks[s] + 1 ELSE delTasks[s]]
  /\ rpc' = "check"
  /\ ticks' = IF metered THEN ticks + 1 ELSE ticks
  /\ UNCHANGED <<engineVars, cfgVars, envVars, scanTasks, scanPoolUp, delPoolUp,
                 scanVars, delVars, startupStatus, stopPc, crashed, histVars,
                 metered, scanWork, delWork, srvVars>>

\* IndexManager::stop: the flag
StopBegin ==
  /\ ~crashed
  /\ startupStatus = "ok"
  /\ stopPc = "none"
  /\ isRunning' = FALSE
  /\ stopPc' = "join"
  /\ UNCHANGED <<scanPoints, expiredKeys, scanJobStatus, delJobStatus,
                 disableStatus, scanJobCnt, delJobCnt, totalEnqueue, totalDequeue,
                 cfgVars, envVars, poolVars, scanVars, delVars, startupStatus,
                 rpc, crashed, histVars, meterVars, srvVars>>

\* _runner.join() returns, and the scanner pool is told to stop
StopJoin ==
  /\ ~crashed
  /\ stopPc = "join"
  /\ RunnerJoined
  /\ scanPoolUp' = FALSE
  /\ stopPc' = "scan_pool"
  /\ UNCHANGED <<engineVars, cfgVars, envVars, scanTasks, delTasks, delPoolUp,
                 scanVars, delVars, startupStatus, rpc, crashed, histVars, meterVars, srvVars>>

\* _indexScanner->stop() returns, and the deleter pool is told to stop
StopScanPool ==
  /\ ~crashed
  /\ stopPc = "scan_pool"
  /\ Running(spc) = {}
  /\ scanTasks' = [s \in Stores |-> 0]
  /\ delPoolUp' = FALSE
  /\ stopPc' = "del_pool"
  /\ UNCHANGED <<engineVars, cfgVars, envVars, delTasks, scanPoolUp, scanVars,
                 delVars, startupStatus, rpc, crashed, histVars, meterVars, srvVars>>

\* _keyDeleter->stop() returns, and stop() with it
StopDelPool ==
  /\ ~crashed
  /\ stopPc = "del_pool"
  /\ Running(dpc) = {}
  /\ delTasks' = [s \in Stores |-> 0]
  /\ stopPc' = "done"
  /\ UNCHANGED <<engineVars, cfgVars, envVars, scanTasks, scanPoolUp, delPoolUp,
                 scanVars, delVars, startupStatus, rpc, crashed, histVars, meterVars, srvVars>>

\* ---------------------------------------------------------------- ServerEntry
\* ServerEntry::startup from the return of _indexMgr->startup() on: the
\* listener runs or fails, and the two flags
SrvStartup(netOk) ==
  /\ ~crashed
  /\ srvPc = "init"
  /\ startupStatus # "none"
  /\ IF startupStatus = "ok" /\ netOk
       THEN /\ srvRunning' = TRUE
            /\ srvStopped' = FALSE
            /\ srvPc' = "up"
       ELSE /\ srvPc' = "failed"
            /\ UNCHANGED <<srvRunning, srvStopped>>
  /\ UNCHANGED <<engineVars, cfgVars, envVars, poolVars, scanVars, delVars,
                 threadVars, crashed, histVars, meterVars, srvShutdowned,
                 stopCall, waitPc, catalogUp, storeUp>>

\* ServerEntry::handleShutdownCmd
HandleShutdownCmd ==
  /\ ~crashed
  /\ srvPc = "up"
  /\ ~srvShutdowned
  /\ srvShutdowned' = TRUE
  /\ UNCHANGED <<engineVars, cfgVars, envVars, poolVars, scanVars, delVars,
                 threadVars, crashed, histVars, meterVars, srvRunning,
                 srvStopped, srvPc, stopCall, waitPc, catalogUp, storeUp>>

\* a thread enters waitStopComplete on the started server
WaitBegin ==
  /\ ~crashed
  /\ srvPc = "up"
  /\ waitPc = "idle"
  /\ waitPc' = "loop"
  /\ UNCHANGED <<engineVars, cfgVars, envVars, poolVars, scanVars, delVars,
                 threadVars, crashed, histVars, meterVars, srvRunning,
                 srvStopped, srvShutdowned, srvPc, stopCall, catalogUp, storeUp>>

\* the test of the while loop; out of the loop with shutdowned false the
\* function returns
WaitLoop ==
  /\ ~crashed
  /\ waitPc = "loop"
  /\ waitPc' = IF srvRunning THEN "wait" ELSE "returned"
  /\ UNCHANGED <<engineVars, cfgVars, envVars, poolVars, scanVars, delVars,
                 threadVars, crashed, histVars, meterVars, srvRunning,
                 srvStopped, srvShutdowned, srvPc, stopCall, catalogUp, storeUp>>

\* what the wait of waitStopComplete waits for
WaitPredicate == ~srvRunning /\ srvStopped

\* _eventCV.wait_for comes back: with the predicate true the function
\* returns, after the timeout with the predicate false it goes on
WaitFor ==
  /\ ~crashed
  /\ waitPc = "wait"
  /\ waitPc' = IF WaitPredicate THEN "returned" ELSE "shut"
  /\ UNCHANGED <<engineVars, cfgVars, envVars, poolVars, scanVars, delVars,
                 threadVars, crashed, histVars, meterVars, srvRunning,
                 srvStopped, srvShutdowned, srvPc, stopCall, catalogUp, storeUp>>

\* the test of _isShutdowned: the break and the call of stop(), or the next
\* round of the loop
WaitShut ==
  /\ ~crashed
  /\ waitPc = "shut"
  /\ IF srvShutdowned
       THEN /\ waitPc' = "stop"
            /\ stopCall' = [stopCall EXCEPT !["waiter"] = "test"]
       ELSE /\ waitPc' = "loop"
            /\ UNCHANGED stopCall
  /\ UNCHANGED <<engineVars, cfgVars, envVars, poolVars, scanVars, delVars,
                 threadVars, crashed, histVars, meterVars, srvRunning,
                 srvStopped, srvShutdowned, srvPc, catalogUp, storeUp>>

\* the stop() that waitStopComplete called has returned, and so it returns
WaitStopReturns ==
  /\ ~crashed
  /\ waitPc = "stop"
  /\ stopCall["waiter"] \in {"refused", "stopped"}
  /\ waitPc' = "returned"
  /\ UNCHANGED <<engineVars, cfgVars, envVars, poolVars, scanVars, delVars,
                 threadVars, crashed, histVars, meterVars, srvRunning,
                 srvStopped, srvShutdowned, srvPc, stopCall, catalogUp, storeUp>>

\* another thread calls ServerEntry::stop
OtherStop ==
  /\ ~crashed
  /\ srvPc # "init"
  /\ stopCall["other"] = "idle"
  /\ stopCall' = [stopCall EXCEPT !["other"] = "test"]
  /\ UNCHANGED <<engineVars, cfgVars, envVars, poolVars, scanVars, delVars,
                 threadVars, crashed, histVars, meterVars, srvRunning,
                 srvStopped, srvShutdowned, srvPc, waitPc, catalogUp, storeUp>>

\* ServerEntry::stop: the test of _isRunning
SrvStopTest(c) ==
  /\ ~crashed
  /\ stopCall[c] = "test"
  /\ stopCall' = [stopCall EXCEPT ![c] = IF srvRunning THEN "flag" ELSE "refused"]
  /\ UNCHANGED <<engineVars, cfgVars, envVars, poolVars, scanVars, delVars,
                 threadVars, crashed, histVars, meterVars, srvRunning,
                 srvStopped, srvShutdowned, srvPc, waitPc, catalogUp, storeUp>>

\* _isRunning.store(false), the notify, and the network, the executor and
\* the replication manager are stopped
SrvStopFlag(c) ==
  /\ ~crashed
  /\ stopCall[c] = "flag"
  /\ srvRunning' = FALSE
  /\ stopCall' = [stopCall EXCEPT ![c] = "index"]
  /\ UNCHANGED <<engineVars, cfgVars, envVars, poolVars, scanVars, delVars,
                 threadVars, crashed, histVars, meterVars, srvStopped,
                 srvShutdowned, srvPc, waitPc, catalogUp, storeUp>>

\* _indexMgr->stop() is called by a caller of ServerEntry::stop
SrvStopCallsIndex ==
  /\ \E c \in Callers : stopCall[c] = "index"
  /\ StopBegin

\* a stop() that goes on without waiting for _indexMgr->stop()
IndexStopSkipped == TRUE

\* _indexMgr->stop() has returned
IndexStopped == stopPc = "done"

\* _indexMgr->stop() returns to the caller, which goes on to the catalog
SrvStopIndexReturns(c) ==
  /\ ~crashed
  /\ stopCall[c] = "index"
  /\ IndexStopped
  /\ stopCall' = [stopCall EXCEPT ![c] = "catalog"]
  /\ UNCHANGED <<engineVars, cfgVars, envVars, poolVars, scanVars, delVars,
                 threadVars, crashed, histVars, meterVars, srvRunning,
                 srvStopped, srvShutdowned, srvPc, waitPc, catalogUp, storeUp>>

\* a second caller that passed the test of _isRunning calls _indexMgr->stop()
\* on an engine that is being stopped, is stopped or is reset: joining a
\* thread twice and calling through a reset pointer are undefined, and the
\* process may abort (it may also go on, which is SrvStopIndexReturns)
SrvStopTwice(c) ==
  /\ ~crashed
  /\ stopCall[c] = "index"
  /\ stopPc # "none"
  /\ \E d \in Callers \ {c} :
       stopCall[d] \in {"index", "catalog", "stores", "done", "stopped"}
  /\ crashed' = TRUE
  /\ UNCHANGED <<engineVars, cfgVars, envVars, poolVars, scanVars, delVars,
                 threadVars, histVars, meterVars, srvVars>>

\* _catalog->stop()
SrvStopCatalog(c) ==
  /\ ~crashed
  /\ stopCall[c] = "catalog"
  /\ catalogUp' = FALSE
  /\ stopCall' = [stopCall EXCEPT ![c] = "stores"]
  /\ UNCHANGED <<engineVars, cfgVars, envVars, poolVars, scanVars, delVars,
                 threadVars, crashed, histVars, meterVars, srvRunning,
                 srvStopped, srvShutdowned, srvPc, waitPc, storeUp>>

\* store->stop() for every store
SrvStopStores(c) ==
  /\ ~crashed
  /\ stopCall[c] = "stores"
  /\ storeUp' = [s \in Stores |-> FALSE]
  /\ stopCall' = [stopCall EXCEPT ![c] = "done"]
  /\ UNCHANGED <<engineVars, cfgVars, envVars, poolVars, scanVars, delVars,
                 threadVars, crashed, histVars, meterVars, srvRunning,
                 srvStopped, srvShutdowned, srvPc, waitPc, catalogUp>>

\* _isStopped.store(true), the notify, and the return
SrvStopDone(c) ==
  /\ ~crashed
  /\ stopCall[c] = "done"
  /\ srvStopped' = TRUE
  /\ stopCall' = [stopCall EXCEPT ![c] = "stopped"]
  /\ UNCHANGED <<engineVars, cfgVars, envVars, poolVars, scanVars, delVars,
                 threadVars, crashed, histVars, meterVars, srvRunning,
                 srvShutdowned, srvPc, waitPc, catalogUp, storeUp>>

SrvStopSteps(c) ==
  \/ SrvStopTest(c)
  \/ SrvStopFlag(c)
  \/ SrvStopIndexReturns(c)
  \/ SrvStopTwice(c)
  \/ SrvStopCatalog(c)
  \/ SrvStopStores(c)
  \/ SrvStopDone(c)

\* ---------------------------------------------------------------- Spec
\* the steps of a scanner job and of a deleter job once they have begun
ScanSteps(j) ==
  \/ ScanCheckDisabled(j)
  \/ ScanCheckMigrate(j)
  \/ ScanOpen(j)
  \/ ScanLoop(j)
  \/ ScanExit(j)

DelSteps(j) ==
  \/ DelCheckDisabled(j)
  \/ DelPeek(j)
  \/ DelCall(j)
  \/ DelPop(j)
  \/ DelExit(j)

JobSteps ==
  \/ \E j \in ScanJobs : ScanSteps(j)
  \/ \E j \in DelJobs : DelSteps(j)

\* what the server does to a store
StoreSteps ==
  \/ \E s \in Stores, e \in Entries : InsertTTL(s, e)
  \/ \E s \in Stores, m \in {"READ_WRITE", "REPLICATE_ONLY"} : SetStoreMode(s, m)
  \/ \E s \in Stores, ok \in BOOLEAN : DestroyStore(s, ok)

\* The server: the engine is started, run schedules the jobs, the pools run
\* them, stores change mode and are destroyed, the engine is stopped.
Next ==
  \/ \E scanOk \in BOOLEAN, delOk \in BOOLEAN : Startup(scanOk, delOk)
  \/ RunSchedScan
  \/ RunSchedDel
  \/ \E s \in Stores : ScanStart(s)
  \/ \E s \in Stores : DelStart(s)
  \/ JobSteps
  \/ \E j \in ScanJobs : ScanOpenFails(j)
  \/ StoreSteps
  \/ \E b \in BOOLEAN : SetMigrateTask(b)
  \/ StopBegin
  \/ StopJoin
  \/ StopScanPool
  \/ StopDelPool

InitServer ==
  /\ Init
  /\ scanBatch = 1
  /\ delBatch = 1

Spec == InitServer /\ [][Next]_vars

\* The engine at work: run schedules the jobs and the pools run them, on stores
\* that change mode and are destroyed.
NextRun ==
  \/ \E scanOk \in BOOLEAN, delOk \in BOOLEAN : Startup(scanOk, delOk)
  \/ RunSchedScan
  \/ RunSchedDel
  \/ \E s \in Stores : ScanStart(s)
  \/ \E s \in Stores : DelStart(s)
  \/ JobSteps
  \/ \E j \in ScanJobs : ScanOpenFails(j)
  \/ StoreSteps

InitRun ==
  /\ Init
  /\ scanBatch = 1
  /\ delBatch = 1
  /\ clusterEnabled = FALSE

SpecRun == InitRun /\ [][NextRun]_vars

\* The jobs called at will on the workers of the two pools, for every
\* configured pair of batch sizes, on stores that change mode and are destroyed.
NextJobs ==
  \/ \E scanOk \in BOOLEAN, delOk \in BOOLEAN : Startup(scanOk, delOk)
  \/ \E s \in Stores : ScanRun(s)
  \/ \E s \in Stores : DelRun(s)
  \/ JobSteps
  \/ \E j \in ScanJobs : ScanOpenFails(j)
  \/ StoreSteps

InitJobs ==
  /\ Init
  /\ clusterEnabled = FALSE

SpecJobs == InitJobs /\ [][NextJobs]_vars

\* The jobs called at will, and stopStore called at will.
NextStop ==
  \/ \E scanOk \in BOOLEAN, delOk \in BOOLEAN : Startup(scanOk, delOk)
  \/ \E s \in Stores : ScanRun(s)
  \/ \E s \in Stores : DelRun(s)
  \/ JobSteps
  \/ \E j \in ScanJobs : ScanOpenFails(j)
  \/ \E s \in Stores, e \in Entries : InsertTTL(s, e)
  \/ \E s \in Stores : StopStore(s)

InitStop ==
  /\ Init
  /\ scanBatch = 1
  /\ delBatch = 1
  /\ clusterEnabled = FALSE
  /\ storeMode = [s \in Stores |-> "READ_WRITE"]

SpecStop == InitStop /\ [][NextStop]_vars

\* The same with the largest batches, so that one job pushes or pops more
\* than one entry.
InitStopWide ==
  /\ Init
  /\ scanBatch = MaxBatch
  /\ delBatch = MaxBatch
  /\ clusterEnabled = FALSE
  /\ storeMode = [s \in Stores |-> "READ_WRITE"]

SpecStopWide == InitStopWide /\ [][NextStop]_vars

\* The engine at work on stores that stay READ_WRITE, open and enabled, with
\* no storage error: run goes round for ever, every scheduled job is taken by
\* a worker, every job that has begun goes on to its return.
NextLive ==
  \/ \E scanOk \in BOOLEAN, delOk \in BOOLEAN : Startup(scanOk, delOk)
  \/ RunSchedScan
  \/ RunSchedDel
  \/ \E s \in Stores : ScanStart(s)
  \/ \E s \in Stores : DelStart(s)
  \/ JobSteps
  \/ \E s \in Stores, e \in Entries : InsertTTL(s, e)

InitLive ==
  /\ Init
  /\ scanBatch = 1
  /\ delBatch = 1
  /\ clusterEnabled = FALSE
  /\ storeMode = [s \in Stores |-> "READ_WRITE"]

FairLive ==
  /\ WF_vars(RunSchedScan)
  /\ WF_vars(RunSchedDel)
  /\ \A s \in Stores : WF_vars(ScanStart(s)) /\ WF_vars(DelStart(s))
  /\ \A j \in ScanJobs : WF_vars(ScanSteps(j))
  /\ \A j \in DelJobs : WF_vars(DelSteps(j))

SpecLive == InitLive /\ [][NextLive]_vars /\ FairLive

\* The life of the engine: startup, run and the two pools at work, stop.
NextLife ==
  \/ \E scanOk \in BOOLEAN, delOk \in BOOLEAN : Startup(scanOk, delOk)
  \/ RunSchedScan
  \/ RunSchedDel
  \/ \E s \in Stores : ScanStart(s)
  \/ \E s \in Stores : DelStart(s)
  \/ JobSteps
  \/ StopBegin
  \/ StopJoin
  \/ StopScanPool
  \/ StopDelPool

InitLife ==
  /\ Init
  /\ clusterEnabled = FALSE
  /\ storeMode = [s \in Stores |-> "READ_WRITE"]

SpecLife == InitLife /\ [][NextLife]_vars

\* The server from its startup to its stop: the engine is started and at
\* work, the server is stopped by the shutdown command or by another thread,
\* and a thread waits in waitStopComplete.
NextShutdown ==
  \/ \E scanOk \in BOOLEAN, delOk \in BOOLEAN : Startup(scanOk, delOk)
  \/ \E netOk \in BOOLEAN : SrvStartup(netOk)
  \/ RunSchedScan
  \/ RunSchedDel
  \/ \E s \in Stores : ScanStart(s)
  \/ \E s \in Stores : DelStart(s)
  \/ JobSteps
  \/ HandleShutdownCmd
  \/ WaitBegin
  \/ WaitLoop
  \/ WaitFor
  \/ WaitShut
  \/ WaitStopReturns
  \/ OtherStop
  \/ \E c \in Callers : SrvStopSteps(c)
  \/ SrvStopCallsIndex
  \/ StopJoin
  \/ StopScanPool
  \/ StopDelPool

InitShutdown ==
  /\ Init
  /\ scanBatch = 1
  /\ delBatch = 1
  /\ clusterEnabled = FALSE
  /\ storeMode = [s \in Stores |-> "READ_WRITE"]
  /\ ttlIndex = [s \in Stores |-> Entries]

SpecShutdown == InitShutdown /\ [][NextShutdown]_vars

\* A metered run of the engine on stores that stay READ_WRITE, open and
\* enabled and receive no new TTL entry: the iterations of run are counted,
\* and so are the jobs of a store that enqueue or dequeue at least once.
NextDrain ==
  \/ \E scanOk \in BOOLEAN, delOk \in BOOLEAN : Startup(scanOk, delOk)
  \/ RunSchedScan
  \/ RunSchedDel
  \/ \E s \in Stores : ScanStart(s)
  \/ \E s \in Stores : DelStart(s)
  \/ JobSteps

InitDrain ==
  /\ InitEngine
  /\ metered = TRUE
  /\ clusterEnabled = FALSE
  /\ storeMode = [s \in Stores |-> "READ_WRITE"]

SpecDrain == InitDrain /\ [][NextDrain]_vars

\* ---------------------------------------------------------------- claims
\* the jobs of a store that are past their compare-exchange
ScanInFlight(s) == {j \in ScanJobs : j[1] = s /\ spc[j] # "idle"}
DelInFlight(s) == {j \in DelJobs : j[1] = s /\ dpc[j] # "idle"}

\* a worker takes a job of store s off its pool and the job finds the flag set
ScanLosesCas(s) == scanTasks'[s] = scanTasks[s] - 1 /\ scanJobStatus[s]
DelLosesCas(s) == delTasks'[s] = delTasks[s] - 1 /\ delJobStatus[s]

\* C1: single-flight.  In every reachable state every store has at most one
\* scanner job and at most one deleter job past the compare-exchange of its
\* busy flag, however many jobs run schedules and however many workers the
\* pools have; and the job that loses the compare-exchange returns with the
\* state of the store as it was: queue, resume point, counters, flags, index.
C1_SingleFlight ==
  /\ [](\A s \in Stores : /\ Cardinality(ScanInFlight(s)) <= 1
                           /\ Cardinality(DelInFlight(s)) <= 1)
  /\ [][\A s \in Stores :
         ScanLosesCas(s) \/ DelLosesCas(s)
           => UNCHANGED <<engineVars, envVars, scanVars, delVars, histVars>>]_vars

\* a scanner and a deleter of a store are in flight, a second job of each kind
\* is scheduled for the store, and a worker of each pool is free to take it
C1_Witness ==
  \E s \in Stores :
    /\ ScanInFlight(s) # {} /\ scanTasks[s] > 0 /\ HasFreeSlot(spc, s)
    /\ DelInFlight(s) # {} /\ delTasks[s] > 0 /\ HasFreeSlot(dpc, s)

\* the steps the claims speak of: an entry is pushed on the queue of store s,
\* and a deleter job of store s calls Command::expireKeyIfNeeded
Enqueues(s) == Len(expiredKeys'[s]) > Len(expiredKeys[s])
CallsExpire(s) == \E j \in DelJobs : j[1] = s /\ dpc[j] = "call" /\ dpc'[j] = "pop"

\* C2: disabled isolation.  Once stopStore(s) has returned, which is when
\* disableStatus[s] is set, no step calls expireKeyIfNeeded for an entry of
\* store s and no step pushes an entry on the queue of store s, jobs that
\* were past their disabled check when stopStore ran included.
C2_DisabledIsolation ==
  [][\A s \in Stores : disableStatus[s] => ~Enqueues(s) /\ ~CallsExpire(s)]_vars

\* C3: replica safety.  No step calls expireKeyIfNeeded for an entry of a
\* store whose mode is REPLICATE_ONLY at the time of the call, the store that
\* was READ_WRITE when the entry was pushed and changed mode since included.
C3_ReplicaSafety ==
  [][\A s \in Stores : CallsExpire(s) => storeMode[s] # "REPLICATE_ONLY"]_vars

\* C4: scanner batch bound.  For every scanBatch >= 1 and whatever the queue
\* of the store holds when the job starts, one invocation of the scanner job
\* pushes at most scanBatch entries.
C4_ScanBatchBound == \A j \in ScanJobs : senq[j] <= scanBatch

\* C5: deleter batch bound.  For every delBatch >= 1 one invocation of the
\* deleter job pops at most delBatch entries off the queue of its store, and
\* the count it returns, deletes, is the number of entries it popped, however
\* many entries a scanner pushes while it runs.
C5_DelBatchBound ==
  \A j \in DelJobs : popped[j] <= delBatch /\ deletes[j] = popped[j]

\* a deleter job is about to return a full batch of two, with a scanner of the
\* store in flight and the queue not drained
C5_Witness ==
  \E j \in DelJobs :
    /\ dpc[j] = "exit" /\ delBatch = MaxBatch
    /\ deletes[j] = delBatch /\ popped[j] = delBatch
    /\ expiredKeys[j[1]] # <<>>
    /\ \E k \in ScanInFlight(j[1]) : senq[k] > 0

\* the entry a step pushes on the queue of store s
Pushed(s) == expiredKeys'[s][Len(expiredKeys'[s])]

Queued(s) == {expiredKeys[s][i] : i \in 1 .. Len(expiredKeys[s])}

\* C7: at-least-once observation.  With run and both pools scheduled fairly
\* and the store READ_WRITE, open and enabled for ever, every expired entry in
\* the TTL index of the store, the one inserted at or before the resume point
\* after the scanner went past included, is in the end passed to
\* expireKeyIfNeeded, which takes it out of the index, or pushed on the queue
\* by a later scanner pass.
C7_ObservedAtLeastOnce ==
  \A s \in Stores, e \in Entries :
    (isRunning /\ e \in ttlIndex[s]) ~> (e \notin ttlIndex[s] \/ e \in Queued(s))

\* C8: post-state of stopStore.  From the return of stopStore(s) on, which is
\* when disableStatus[s] is set, the queue of store s is empty and its resume
\* point is the empty string in every state, a scanner or a deleter job of s
\* in flight when stopStore ran notwithstanding; and disableStatus[s] is never
\* reset.
C8_StopPostState ==
  /\ [](\A s \in Stores :
          disableStatus[s] => expiredKeys[s] = <<>> /\ scanPoints[s] = Empty)
  /\ [][\A s \in Stores : disableStatus[s] => disableStatus'[s]]_vars

\* a scanner job leaves its mode test
LeavesModeTest(j) == spc[j] = "open" /\ spc'[j] # "open"

\* C9: no work on a replica or a closed store.  The scanner job that finds
\* its store REPLICATE_ONLY or not open returns at once: it pushes nothing,
\* leaves the queue, the resume point and totalEnqueue as they were, and
\* releases the scanner flag of the store.
C9_NoWorkOnReplica ==
  [][\A j \in ScanJobs :
       LeavesModeTest(j) /\ storeMode[j[1]] \in {"REPLICATE_ONLY", "STORE_NONE"}
         => /\ spc'[j] = "idle"
            /\ UNCHANGED <<expiredKeys, scanPoints, totalEnqueue>>
            /\ scanJobStatus'[j[1]] = FALSE]_vars

\* a scanner job is at the mode test of a store that turned REPLICATE_ONLY
\* after a pass, with expired entries left behind the resume point
C9_Witness ==
  \E j \in ScanJobs :
    /\ spc[j] = "open" /\ storeMode[j[1]] = "REPLICATE_ONLY"
    /\ scanJobStatus[j[1]]
    /\ scanPoints[j[1]] # Empty
    /\ ScanPosition(ttlIndex[j[1]], scanPoints[j[1]]) # {}

\* C10: resume monotonicity.  Every assignment to the resume point of a store
\* leaves it greater than or equal to its value before, in the order of the
\* index, within one pass and from pass to pass; the one exception is
\* stopStore, which resets it to the empty string.
C10_ResumeMonotone ==
  [][\A s \in Stores :
       \/ KeyLE(scanPoints[s], scanPoints'[s])
       \/ scanPoints'[s] = Empty /\ expiredKeys'[s] = <<>> /\ disableStatus'[s]]_vars

\* a pass that resumed behind the entry of an earlier pass has assigned the
\* resume point twice
C10_Witness ==
  \E j \in ScanJobs :
    /\ senq[j] = 2 /\ totalEnqueue = 3
    /\ scanPoints[j[1]] = Encode(MaxEntry)
    /\ ~disableStatus[j[1]]

\* the queue of store s in strictly ascending key order
QueueSorted(s) ==
  \A i \in 1 .. Len(expiredKeys[s]) - 1 : expiredKeys[s][i] < expiredKeys[s][i + 1]

\* C11: queue ordering.  The entries of a store are pushed in the order of
\* the index scan and popped first in first out: in every reachable state
\* the queue is sorted by encoded key, and the entries passed to
\* expireKeyIfNeeded for the store since the last stopStore come in the
\* order of the index.
C11_QueueOrder ==
  /\ [](\A s \in Stores : QueueSorted(s))
  /\ [][\A s \in Stores :
         CallsExpire(s) /\ lastCall[s] # NoEntry => lastCall[s] <= lastCall'[s]]_vars

\* the expired entries of a store in a run without new entries: those still
\* in the index and those already enqueued
ExpiredOf(s) == ttlIndex[s] \cup everEnq[s]
Ceil(n, b) == (n + b - 1) \div b

\* C12: drain bound. With no new TTL entry arriving, the scanner jobs of a
\* shard that enqueue number at most ceil(|TTL| / scan_batch) and its deleter
\* jobs that dequeue number at most ceil(|TTL| / del_batch), |TTL| being the
\* number of expired entries of the shard.
C12_DrainBound ==
  \A s \in Stores :
    /\ scanWork[s] <= Ceil(Cardinality(ExpiredOf(s)), scanBatch)
    /\ delWork[s] <= Ceil(Cardinality(ExpiredOf(s)), delBatch)

\* run is between two iterations and nothing it scheduled is left to do
Quiescent ==
  /\ rpc = "check"
  /\ \A s \in Stores : scanTasks[s] = 0 /\ delTasks[s] = 0
  /\ Running(spc) = {}
  /\ Running(dpc) = {}

\* scenario S1 at the scale of the model: equal batches, and more expired
\* keys than two batches hold but no more than three (10 keys, batches of 4)
ScenarioS1 ==
  /\ scanBatch = delBatch
  /\ \A s \in Stores :
       /\ Cardinality(ExpiredOf(s)) > 2 * delBatch
       /\ Cardinality(ExpiredOf(s)) <= 3 * delBatch

\* C13 as stated: scenario S1. After two iterations of run, every scheduled
\* job having completed, all the expired keys have been passed to
\* expire_key_if_needed and total_enqueue = total_dequeue = their number.
C13_S1AsStated ==
  ScenarioS1 /\ ticks = 2 /\ Quiescent =>
    \A s \in Stores :
      /\ ttlIndex[s] = {}
      /\ totalEnqueue = Cardinality(ExpiredOf(s))
      /\ totalDequeue = Cardinality(ExpiredOf(s))

\* C13: scenario S1, amended. Every iteration of run schedules at most one
\* deleter job per shard and a job pops at most del_batch entries, so after
\* two iterations at most 2 * del_batch keys per shard have been dequeued (8
\* of the 10), and no more than that have left the TTL index.
C13_S1TwoTicks ==
  /\ totalDequeue <= NumStores * ticks * delBatch
  /\ \A s \in Stores :
       Cardinality(everEnq[s] \ ttlIndex[s]) <= ticks * delBatch

C13_Witness ==
  /\ ScenarioS1
  /\ ticks = 2
  /\ Quiescent
  /\ totalDequeue = 2 * delBatch
  /\ \E s \in Stores : ttlIndex[s] # {}

\* C14: migration gating. While cluster mode is enabled and a migrate task
\* exists, no scanner job enqueues an entry: no queue grows and total_enqueue
\* stays as it is.
C14_MigrateGating ==
  [][clusterEnabled /\ migrateTask =>
       /\ \A s \in Stores : ~Enqueues(s)
       /\ totalEnqueue' = totalEnqueue]_vars

\* C15: clean shutdown. When stop() has returned, run has left its loop and
\* both pools are stopped; is_running() is false, no scanner or deleter job
\* is executing and none is left to start.
C15_CleanShutdown ==
  stopPc = "done" =>
    /\ rpc = "exited"
    /\ ~scanPoolUp /\ ~delPoolUp
    /\ ~isRunning
    /\ Running(spc) = {} /\ Running(dpc) = {}
    /\ \A s \in Stores : scanTasks[s] = 0 /\ delTasks[s] = 0

\* stop() has returned on an engine whose jobs had enqueued and dequeued
C15_Witness ==
  /\ stopPc = "done"
  /\ totalEnqueue > 0
  /\ totalDequeue > 0

\* C16: startup. Before startup() the engine is not running and nothing is
\* launched; when startup() has returned ok, and until stop(), is_running is
\* true and the runner thread and both pools are launched; when it has
\* returned the failure of a pool, is_running is false and the runner thread
\* is never launched.
C16_Startup ==
  /\ startupStatus = "none" =>
       ~isRunning /\ rpc = "off" /\ ~scanPoolUp /\ ~delPoolUp
  /\ startupStatus = "ok" /\ stopPc = "none" =>
       isRunning /\ rpc \in {"check", "snap"} /\ scanPoolUp /\ delPoolUp
  /\ startupStatus \in {"scan_pool_failed", "del_pool_failed"} =>
       ~isRunning /\ rpc = "off" /\ ~delPoolUp

\* startup() has returned the failure of the deleter pool, the scanner pool
\* being up
C16_Witness ==
  /\ startupStatus = "del_pool_failed"
  /\ scanPoolUp
  /\ ~isRunning

\* C17: pop assertion. A deleter job at its pop finds the queue of its store
\* non-empty, and the INVARIANT before pop_front has never failed.
C17_PopAssertion ==
  /\ ~crashed
  /\ \A j \in DelJobs : dpc[j] = "pop" => Len(expiredKeys[j[1]]) > 0

\* C18: busy flags are honest. When no scanner job of a store is between its
\* compare-exchange and its return the store's scan flag is false, and the
\* same for the deleter jobs and the delete flag.
C18_FlagsHonest ==
  \A s \in Stores :
    /\ ScanInFlight(s) = {} => ~scanJobStatus[s]
    /\ DelInFlight(s) = {} => ~delJobStatus[s]

\* deleter job j removes the front of its store's queue
Pops(j) == dpc[j] = "pop" /\ popped'[j] = popped[j] + 1

\* C19: peek-then-pop consistency. The entry a deleter job removes is the
\* entry it copied from the front and passed to expire_key_if_needed in the
\* same iteration.
C19_PeekThenPop ==
  [][\A j \in DelJobs : Pops(j) => Head(expiredKeys[j[1]]) = index[j]]_vars

\* the two halves of an iteration of run
SchedulesScanners == rpc = "check" /\ rpc' = "snap"
SchedulesDeleters == rpc = "snap" /\ rpc' = "check"

ScanCounted(s) == {j \in ScanJobs : j[1] = s /\ spc[j] \in {"open", "loop", "exit"}}
DelCounted(s) == {j \in DelJobs : j[1] = s /\ dpc[j] \in {"peek", "call", "pop", "exit"}}

\* C21: in-flight counters. The scan counter and the delete counter of every
\* store are 0 or 1 and equal the number of jobs of their kind between their
\* increment and their decrement; no decrement takes a counter below 0.
C21_CountersExact ==
  \A s \in Stores :
    /\ scanJobCnt[s] \in {0, 1}
    /\ delJobCnt[s] \in {0, 1}
    /\ scanJobCnt[s] = Cardinality(ScanCounted(s))
    /\ delJobCnt[s] = Cardinality(DelCounted(s))

\* the entries in the queues of the stores of S
RECURSIVE QueuedIn(_)
QueuedIn(S) ==
  IF S = {} THEN 0
  ELSE LET s == CHOOSE x \in S : TRUE
       IN  Len(expiredKeys[s]) + QueuedIn(S \ {s})

\* stopStore sets _disableStatus and nothing clears it
StopStoreNeverCalled == \A s \in Stores : ~disableStatus[s]

\* C22: engine counters. total_enqueue and total_dequeue never decrease,
\* total_dequeue <= total_enqueue, and as long as stop_store has not been
\* invoked total_enqueue - total_dequeue is the number of queued entries.
C22_EngineCounters ==
  /\ [](/\ totalDequeue <= totalEnqueue
        /\ StopStoreNeverCalled =>
             totalEnqueue - totalDequeue = QueuedIn(Stores))
  /\ [][totalEnqueue' >= totalEnqueue /\ totalDequeue' >= totalDequeue]_vars

\* entries were dequeued and others are still queued, stopStore not called
C22_Witness ==
  /\ totalDequeue > 0
  /\ totalEnqueue > totalDequeue
  /\ StopStoreNeverCalled
  /\ QueuedIn(Stores) > 0

\* the engine is stopped: run has exited, both pools are down, no job is
\* between its compare-exchange and its return
EngineStopped ==
  /\ stopPc = "done"
  /\ rpc = "exited"
  /\ ~scanPoolUp /\ ~delPoolUp
  /\ Running(spc) = {} /\ Running(dpc) = {}

\* a call of ServerEntry::stop finds the server not running
RefusedCall(c) == stopCall[c] = "test" /\ stopCall'[c] # "test" /\ ~srvRunning

\* C23: server shutdown ordering. When the catalog or a store has been
\* stopped by ServerEntry::stop the engine is already stopped, so no job
\* runs against a stopped store; and a call of ServerEntry::stop that finds
\* the server not running returns without stopping anything.
C23_ShutdownOrder ==
  /\ []((~catalogUp \/ \E s \in Stores : ~storeUp[s]) => EngineStopped)
  /\ [][\A c \in Callers :
          RefusedCall(c) =>
            /\ stopCall'[c] = "refused"
            /\ UNCHANGED <<engineVars, poolVars, threadVars, srvRunning,
                           srvStopped, catalogUp, storeUp>>]_vars

\* a stop() has gone through, after jobs enqueued and dequeued, the stores
\* are stopped, and the stop() of the other caller was refused
C23_Witness ==
  /\ stopCall["other"] = "stopped"
  /\ stopCall["waiter"] = "refused"
  /\ \A s \in Stores : ~storeUp[s]
  /\ totalDequeue > 0

\* C24: waitStopComplete returns only when the server is fully stopped:
\* _isRunning false and _isStopped true, no stop() still in progress.
C24_WaitStopComplete ==
  waitPc = "returned" =>
    /\ ~srvRunning
    /\ srvStopped
    /\ \A c \in Callers : stopCall[c] \in {"idle", "refused", "stopped"}

\* destroyStore has destroyed store s: its mode has become STORE_NONE
Destroys(s) == storeMode[s] # "STORE_NONE" /\ storeMode'[s] = "STORE_NONE"

\* C25: destroyStore is all-or-nothing. A destroyStore that returns an error
\* leaves the store's mode and the engine's shard as they were, so a
\* destroyStore that changes the mode to STORE_NONE is one that succeeds, and
\* it leaves the shard disabled with an empty queue and an empty resume point.
C25_DestroyAllOrNothing ==
  [][\A s \in Stores :
       Destroys(s) =>
         /\ disableStatus'[s]
         /\ expiredKeys'[s] = <<>>
         /\ scanPoints'[s] = Empty]_vars

====
